---- MODULE Spec2Model ----
(***************************************************************************)
(* A model of the gossip node of crates/gossip: the shared NodeState       *)
(* (seen, neighbours, unacked) behind one mutex, the message handler       *)
(* GossipNode::process with its read, broadcast and topology branches, and *)
(* the per-message background task spawned by GossipNode::retry.           *)
(*                                                                         *)
(* A handler invocation and a retry task advance one critical section (or  *)
(* one await) at a time, so every interleaving the executor can produce    *)
(* between two lock holds is a behaviour of the model.                     *)
(***************************************************************************)
EXTENDS Integers, Sequences, FiniteSets, TLC

\* ------------------------------------------------------------------ bounds

\* In the cluster: the MessageIds broadcast, and the concurrent invocations per node.
MaxClusterMsg == 1
MaxClusterHandlers == 1
\* MessageIds are 1..MaxMsg (u64 values; the code only compares them).
MaxMsg == 2
\* Concurrent invocations of process() the runtime runs on one node.
MaxHandlers == 2
\* Requests the environment delivers to the node in one behaviour.
MaxRequests == 3

\* ------------------------------------------------------------------ constants

RANDOM_PEER_COUNT == 3

\* ------------------------------------------------------------------ universe

Msgs == 1..MaxMsg
Slots == 1..MaxHandlers

\* The nodes of the cluster; Self is the node the single-node behaviours follow.
Nodes == {"n1", "n2", "n3"}
Self == "n1"

\* The src fields the environment puts on a request to Self.
Senders == {"c1", "n2"}

\* Peer lists a topology request carries for Self: one peer, one with the
\* node's own id, and one longer than RANDOM_PEER_COUNT.
TopologyLists ==
    { <<"n2">>, <<"n1", "n2">>, <<"n2", "n3", "n4", "n5">> }

\* Topology maps: an entry for Self, or no entry for Self.
TopologyMaps ==
    { (Self :> l) : l \in TopologyLists } \cup { ("n2" :> <<"n1">>) }

\* Bodies on the wire (serde: tag = "type", snake_case).
ReadBody == [type |-> "read"]
BroadcastBody(m) == [type |-> "broadcast", message |-> m]
TopologyBody(t) == [type |-> "topology", topology |-> t]
OtherBodies ==
    { [type |-> "init"],
      [type |-> "read_ok", messages |-> <<>>],
      [type |-> "echo"],
      [type |-> "broadcast_ok"],
      [type |-> "broadcast"] }

Bodies ==
    {ReadBody} \cup { BroadcastBody(m) : m \in Msgs }
        \cup { TopologyBody(t) : t \in TopologyMaps } \cup OtherBodies

NoBody == [type |-> "none"]
NoReq == [src |-> "-", body |-> NoBody]

\* ------------------------------------------------------------------ helpers

Range(s) == { s[i] : i \in 1..Len(s) }

Min(a, b) == IF a < b THEN a ELSE b

\* All orders in which an iterator can yield the elements of a HashSet.
Perms(S) ==
    { s \in [1..Cardinality(S) -> S] : \A x \in S : \E i \in 1..Cardinality(S) : s[i] = x }

\* Iterator::take
Take(s, k) == SubSeq(s, 1, Min(k, Len(s)))

\* HashMap<u64, HashSet<String>> as a set of <<key, value>> pairs, one per key.
Keys(map) == { p[1] : p \in map }
Get(map, k) == (CHOOSE p \in map : p[1] = k)[2]
Insert(map, k, v) == { p \in map : p[1] # k } \cup { <<k, v>> }
Remove(map, k) == { p \in map : p[1] # k }

\* req.body.as_obj::<Request>(): the variant the body decodes to, or "err".
Variant(body) ==
    CASE body.type \in {"init", "read"} -> body.type
      [] body.type = "read_ok" /\ "messages" \in DOMAIN body -> "read_ok"
      [] body.type = "broadcast" /\ "message" \in DOMAIN body -> "broadcast"
      [] body.type = "topology" /\ "topology" \in DOMAIN body -> "topology"
      [] OTHER -> "err"

\* ------------------------------------------------------------------ state

VARIABLES
    seen,        \* seen[n]: NodeState.seen, a set of MessageIds
    neighbours,  \* neighbours[n]: NodeState.neighbours, a sequence of PeerIds
    unacked,     \* unacked[n]: NodeState.unacked, a set of pairs <<MessageId, set of PeerIds>>
    lock,        \* lock[n]: 0 when the state mutex is free, else the id of the task holding it
    handlers,    \* handlers[n][h]: an invocation of process(): pc, request, snapshot, reply
    tasks,       \* tasks[n]: the tasks spawned by retry()
    net,         \* RPCs issued by execute_rpc and not yet delivered
    wins,        \* wins[n][m]: how often try_add(m) returned true
    received     \* requests delivered so far

vars == <<seen, neighbours, unacked, lock, handlers, tasks, net, wins, received>>

\* gate is history: the MessageIds try_add had accepted when snapshot() ran.
IdleHandler ==
    [pc |-> "idle", req |-> NoReq, data |-> <<>>, gate |-> {},
     reply |-> NoBody, replies |-> 0]

\* GossipNode::default(): empty seen, neighbours and unacked.
Init ==
    /\ seen = [n \in Nodes |-> {}]
    /\ neighbours = [n \in Nodes |-> <<>>]
    /\ unacked = [n \in Nodes |-> {}]
    /\ lock = [n \in Nodes |-> 0]
    /\ handlers = [n \in Nodes |-> [h \in Slots |-> IdleHandler]]
    /\ tasks = [n \in Nodes |-> {}]
    /\ net = {}
    /\ wins = [n \in Nodes |-> [m \in Msgs |-> 0]]
    /\ received = 0

\* ------------------------------------------------------------------ handler

Handler(n, h) == handlers[n][h]

SetHandler(n, h, r) == handlers' = [handlers EXCEPT ![n][h] = r]

\* A slot whose invocation has returned (or never ran) can take the next request.
Returned(n, h) == Handler(n, h).pc \in {"idle", "done", "exited", "panicked"}

\* The runtime invokes process(runtime, req) on a worker.
Invoke(n, h, req) ==
    /\ Returned(n, h)
    /\ \A g \in Slots : g < h => ~Returned(n, g)
    /\ SetHandler(n, h, [IdleHandler EXCEPT !.pc = "start", !.req = req])

\* A request from the environment reaches the node.
Receive(n, h, req) ==
    /\ received < MaxRequests
    /\ Invoke(n, h, req)
    /\ received' = received + 1
    /\ UNCHANGED <<seen, neighbours, unacked, lock, tasks, net, wins>>

\* The request of the invocation in slot h is a broadcast of m.
BroadcastIn(n, h, m) ==
    /\ Variant(Handler(n, h).req.body) = "broadcast"
    /\ Handler(n, h).req.body.message = m

\* snapshot(): the elements of seen, in the order the HashSet iterator yields them.
SnapshotsPartial(s) == UNION { Perms(x) : x \in SUBSET s }
Snapshots(s) == Perms(s)

\* Read branch, first half: data = self.snapshot() under the lock.
ReadSnapshot(n, h) ==
    /\ Handler(n, h).pc = "start"
    /\ Variant(Handler(n, h).req.body) = "read"
    /\ lock[n] = 0
    /\ \E data \in Snapshots(seen[n]) :
          SetHandler(n, h, [Handler(n, h) EXCEPT
              !.pc = "reply_read", !.data = data,
              !.gate = { m \in Msgs : wins[n][m] > 0 }])
    /\ UNCHANGED <<seen, neighbours, unacked, lock, tasks, net, wins, received>>

\* Read branch, second half: runtime.reply(req, ReadOk { messages: data }).
ReadReply(n, h) ==
    /\ Handler(n, h).pc = "reply_read"
    /\ SetHandler(n, h, [Handler(n, h) EXCEPT
            !.pc = "done",
            !.data = <<>>,
            !.reply = [type |-> "read_ok", messages |-> Handler(n, h).data],
            !.replies = @ + 1])
    /\ UNCHANGED <<seen, neighbours, unacked, lock, tasks, net, wins, received>>

\* try_add: its return value and the seen set it leaves.
TryAddReturnsAlways(s, value) == TRUE
TryAddReturns(s, value) == value \notin s
TryAddSeenNoInsert(s, value) == s
TryAddSeen(s, value) == IF value \notin s THEN s \cup {value} ELSE s

\* Broadcast branch: if self.try_add(message) { ... }
TryAdd(n, h) ==
    LET m == Handler(n, h).req.body.message IN
    /\ Handler(n, h).pc = "start"
    /\ Variant(Handler(n, h).req.body) = "broadcast"
    /\ lock[n] = 0
    /\ seen' = [seen EXCEPT ![n] = TryAddSeen(seen[n], m)]
    /\ IF TryAddReturns(seen[n], m)
         THEN /\ wins' = [wins EXCEPT ![n][m] = @ + 1]
              /\ SetHandler(n, h, [Handler(n, h) EXCEPT !.pc = "arm"])
         ELSE /\ wins' = wins
              /\ SetHandler(n, h, [Handler(n, h) EXCEPT !.pc = "reply_ok"])
    /\ UNCHANGED <<neighbours, unacked, lock, tasks, net, received>>

\* state.neighbours collected into a HashSet, the sender removed.
TargetsKeepSender(nbrs, sender) == Range(nbrs)
Targets(nbrs, sender) == Range(nbrs) \ {sender}

\* retry(): tokio::spawn of the background task for msg.
NewTask(n, m, targets, nbrs, sender) ==
    [id |-> Cardinality(tasks[n]) + 1, msg |-> m, pc |-> "spawned",
     armed |-> targets, nbrs |-> nbrs, sender |-> sender,
     first |-> -1, rpcs |-> 0, sent |-> {}]

\* Broadcast branch, inside the if: the second lock hold inserts the unacked
\* entry and spawns the retry task.
Arm(n, h) ==
    LET m == Handler(n, h).req.body.message
        sender == Handler(n, h).req.src
        targets == Targets(neighbours[n], sender)
    IN
    /\ Handler(n, h).pc = "arm"
    /\ lock[n] = 0
    /\ unacked' = [unacked EXCEPT ![n] = Insert(@, m, targets)]
    /\ tasks' = [tasks EXCEPT ![n] = @ \cup {NewTask(n, m, targets, neighbours[n], sender)}]
    /\ SetHandler(n, h, [Handler(n, h) EXCEPT !.pc = "reply_ok"])
    /\ UNCHANGED <<seen, neighbours, lock, net, wins, received>>

\* runtime.reply_ok(req): the empty reply named after the request.
OkBody(req) ==
    [type |-> IF req.body.type = "broadcast" THEN "broadcast_ok" ELSE "topology_ok"]

ReplyOkAfterRetry(n, h) ==
    /\ Handler(n, h).pc = "reply_ok"
    /\ \A t \in tasks[n] : t.pc = "returned"
    /\ SetHandler(n, h, [Handler(n, h) EXCEPT
            !.pc = "done", !.reply = OkBody(Handler(n, h).req), !.replies = @ + 1])
    /\ UNCHANGED <<seen, neighbours, unacked, lock, tasks, net, wins, received>>

\* Broadcast and topology branches: runtime.reply_ok(req).await.
ReplyOk(n, h) ==
    /\ Handler(n, h).pc = "reply_ok"
    /\ SetHandler(n, h, [Handler(n, h) EXCEPT
            !.pc = "done", !.reply = OkBody(Handler(n, h).req), !.replies = @ + 1])
    /\ UNCHANGED <<seen, neighbours, unacked, lock, tasks, net, wins, received>>

TopologyInstallRearms(n, h) ==
    LET map == Handler(n, h).req.body.topology IN
    /\ Handler(n, h).pc = "start"
    /\ Variant(Handler(n, h).req.body) = "topology"
    /\ n \in DOMAIN map
    /\ lock[n] = 0
    /\ neighbours' = [neighbours EXCEPT ![n] = map[n]]
    /\ unacked' = [unacked EXCEPT ![n] = { <<e[1], Range(map[n])>> : e \in @ }]
    /\ SetHandler(n, h, [Handler(n, h) EXCEPT !.pc = "reply_ok"])
    /\ UNCHANGED <<seen, lock, tasks, net, wins, received>>

TopologyInstallForgets(n, h) ==
    LET map == Handler(n, h).req.body.topology IN
    /\ Handler(n, h).pc = "start"
    /\ Variant(Handler(n, h).req.body) = "topology"
    /\ n \in DOMAIN map
    /\ lock[n] = 0
    /\ neighbours' = [neighbours EXCEPT ![n] = map[n]]
    /\ seen' = [seen EXCEPT ![n] = {}]
    /\ SetHandler(n, h, [Handler(n, h) EXCEPT !.pc = "reply_ok"])
    /\ UNCHANGED <<unacked, lock, tasks, net, wins, received>>

\* Topology branch: topology.get(runtime.node_id()).unwrap() on a map with the entry.
TopologyInstall(n, h) ==
    LET map == Handler(n, h).req.body.topology IN
    /\ Handler(n, h).pc = "start"
    /\ Variant(Handler(n, h).req.body) = "topology"
    /\ n \in DOMAIN map
    /\ lock[n] = 0
    /\ neighbours' = [neighbours EXCEPT ![n] = map[n]]
    /\ SetHandler(n, h, [Handler(n, h) EXCEPT !.pc = "reply_ok"])
    /\ UNCHANGED <<seen, unacked, lock, tasks, net, wins, received>>

\* Topology branch: unwrap() of None panics, before the lock is taken.
TopologyMissing(n, h) ==
    LET map == Handler(n, h).req.body.topology IN
    /\ Handler(n, h).pc = "start"
    /\ Variant(Handler(n, h).req.body) = "topology"
    /\ n \notin DOMAIN map
    /\ SetHandler(n, h, [Handler(n, h) EXCEPT !.pc = "panicked"])
    /\ UNCHANGED <<seen, neighbours, unacked, lock, tasks, net, wins, received>>

ExitWithReply(n, h) ==
    /\ Handler(n, h).pc = "start"
    /\ Variant(Handler(n, h).req.body) \in {"init", "read_ok", "err"}
    /\ SetHandler(n, h, [Handler(n, h) EXCEPT
            !.pc = "exited", !.reply = OkBody(Handler(n, h).req), !.replies = @ + 1])
    /\ UNCHANGED <<seen, neighbours, unacked, lock, tasks, net, wins, received>>

\* The catch-all arm: runtime.exit(req).
Exit(n, h) ==
    /\ Handler(n, h).pc = "start"
    /\ Variant(Handler(n, h).req.body) \in {"init", "read_ok", "err"}
    /\ SetHandler(n, h, [Handler(n, h) EXCEPT !.pc = "exited"])
    /\ UNCHANGED <<seen, neighbours, unacked, lock, tasks, net, wins, received>>

\* ------------------------------------------------------------------ retry task

SetTask(n, t, r) == tasks' = [tasks EXCEPT ![n] = (@ \ {t}) \cup {r}]

\* unacked.get(&msg).map_or(true, |un| un.is_empty())
DrainedAlways(map, m) == TRUE
DrainedOnlyAbsent(map, m) == m \notin Keys(map)
Drained(map, m) == IF m \in Keys(map) THEN Get(map, m) = {} ELSE TRUE

\* neighbours.shuffle(); neighbours.into_iter().take(RANDOM_PEER_COUNT)
ChosenAll(shuffled) == shuffled

ChosenNone(shuffled) == Take(shuffled, 0)
Chosen(shuffled) == Take(shuffled, RANDOM_PEER_COUNT)

Rpc(n, dest, m) == [src |-> n, dest |-> dest, body |-> BroadcastBody(m)]

\* One pass of the loop body: the lock is taken and the entry checked; the
\* task leaves the loop (dropping the guard), or issues the RPCs while the
\* guard is alive.  With held the step ends after the for loop, the guard not
\* yet dropped; without, it runs on through the end of the block to the sleep.
RetryPass(n, t, held) ==
    /\ t \in tasks[n]
    /\ t.pc \in {"spawned", "sleep"}
    /\ lock[n] = 0
    /\ IF Drained(unacked[n], t.msg)
         THEN /\ SetTask(n, t, [t EXCEPT !.pc = "drain",
                                         !.first = IF @ = -1 THEN 0 ELSE @,
                                         !.rpcs = 0, !.sent = {}])
              /\ UNCHANGED <<lock, net>>
         ELSE \E shuffled \in Perms(Get(unacked[n], t.msg)) :
                LET chosen == Chosen(shuffled) IN
                /\ net' = net \cup { Rpc(n, chosen[i], t.msg) : i \in 1..Len(chosen) }
                /\ lock' = [lock EXCEPT ![n] = IF held THEN t.id ELSE 0]
                /\ SetTask(n, t, [t EXCEPT !.pc = IF held THEN "unlock" ELSE "sleep",
                                           !.first = IF @ = -1 THEN Len(chosen) ELSE @,
                                           !.rpcs = Len(chosen),
                                           !.sent = Range(chosen)])
    /\ UNCHANGED <<seen, neighbours, unacked, handlers, wins, received>>

\* A retry attempt seen up to its last execute_rpc; RetryRelease ends it.
RetryAttempt(n, t) == RetryPass(n, t, TRUE)

\* A retry attempt as one step: lock, check, send, unlock.
RetryAttemptWhole(n, t) == RetryPass(n, t, FALSE)

RetryReleaseAcks(n, t) ==
    /\ t \in tasks[n]
    /\ t.pc = "unlock"
    /\ lock[n] = t.id
    /\ lock' = [lock EXCEPT ![n] = 0]
    /\ unacked' = [unacked EXCEPT ![n] =
            Insert(@, t.msg, Get(@, t.msg) \ t.sent)]
    /\ SetTask(n, t, [t EXCEPT !.pc = "sleep"])
    /\ UNCHANGED <<seen, neighbours, handlers, net, wins, received>>

\* The end of the inner block drops the guard; the task then sleeps one second.
RetryRelease(n, t) ==
    /\ t \in tasks[n]
    /\ t.pc = "unlock"
    /\ lock[n] = t.id
    /\ lock' = [lock EXCEPT ![n] = 0]
    /\ SetTask(n, t, [t EXCEPT !.pc = "sleep"])
    /\ UNCHANGED <<seen, neighbours, unacked, handlers, net, wins, received>>

RetryClearKeeps(n, t) ==
    /\ t \in tasks[n]
    /\ t.pc = "drain"
    /\ lock[n] = 0
    /\ SetTask(n, t, [t EXCEPT !.pc = "returned"])
    /\ UNCHANGED <<seen, neighbours, unacked, lock, handlers, net, wins, received>>

\* After the loop: node.state.lock().unwrap().unacked.remove(&msg).
RetryClear(n, t) ==
    /\ t \in tasks[n]
    /\ t.pc = "drain"
    /\ lock[n] = 0
    /\ unacked' = [unacked EXCEPT ![n] = Remove(@, t.msg)]
    /\ SetTask(n, t, [t EXCEPT !.pc = "returned"])
    /\ UNCHANGED <<seen, neighbours, lock, handlers, net, wins, received>>

\* ------------------------------------------------------------------ one node

\* The requests the environment sends to Self.
Requests ==
    { [src |-> s, body |-> BroadcastBody(m)] : s \in Senders, m \in Msgs }
        \cup { [src |-> "c1", body |-> b] : b \in Bodies }

Deliver == \E h \in Slots, req \in Requests : Receive(Self, h, req)
HandleRead == \E h \in Slots : ReadSnapshot(Self, h)
HandleReadReply == \E h \in Slots : ReadReply(Self, h)
HandleTryAdd == \E h \in Slots : TryAdd(Self, h)
HandleArm == \E h \in Slots : Arm(Self, h)
HandleReplyOk == \E h \in Slots : ReplyOk(Self, h)
HandleTopology == \E h \in Slots : TopologyInstall(Self, h)
HandleTopologyMissing == \E h \in Slots : TopologyMissing(Self, h)
HandleExit == \E h \in Slots : Exit(Self, h)
TaskAttempt == \E t \in tasks[Self] : RetryAttempt(Self, t)
TaskRelease == \E t \in tasks[Self] : RetryRelease(Self, t)
TaskClear == \E t \in tasks[Self] : RetryClear(Self, t)

Next ==
    \/ Deliver
    \/ HandleRead
    \/ HandleReadReply
    \/ HandleTryAdd
    \/ HandleArm
    \/ HandleReplyOk
    \/ HandleTopology
    \/ HandleTopologyMissing
    \/ HandleExit
    \/ TaskAttempt
    \/ TaskRelease
    \/ TaskClear

Spec == Init /\ [][Next]_vars

\* One step of the invocation in slot h, whichever its position allows.
HandlerStep(n, h) ==
    \/ ReadSnapshot(n, h)
    \/ ReadReply(n, h)
    \/ TryAdd(n, h)
    \/ Arm(n, h)
    \/ ReplyOk(n, h)
    \/ TopologyInstall(n, h)
    \/ TopologyMissing(n, h)
    \/ Exit(n, h)

\* One step of the retry task of message m outside its critical section.
TaskStep(n, m) ==
    \E t \in tasks[n] : t.msg = m /\ (RetryAttempt(n, t) \/ RetryClear(n, t))

\* The executor runs every handler invocation to its end, and a thread waiting
\* for the mutex gets it; a task inside its critical section leaves it.  The
\* start of a retry attempt is given no fairness here: the handler's progress
\* must not depend on it.
HandlerFairness == \A h \in Slots : SF_vars(HandlerStep(Self, h))

FairSpec == Spec /\ HandlerFairness /\ WF_vars(TaskRelease)

\* The executor also runs every spawned retry task: its sleep ends and it gets
\* the mutex.
TaskFairness == \A m \in Msgs : SF_vars(TaskStep(Self, m))

TaskFairSpec == FairSpec /\ TaskFairness

\* ------------------------------------------------------------------ cluster

\* Every node of Nodes runs the handler; the client sends each node its
\* topology once and broadcasts each message to one node; the RPCs the retry
\* tasks issue are delivered to their destination's handler.

ClusterMsgs == 1..MaxClusterMsg
ClusterSlots == 1..MaxClusterHandlers

\* A connected overlay: the line n1 - n2 - n3.
Overlay ==
    ("n1" :> <<"n2">>) @@ ("n2" :> <<"n1", "n3">>) @@ ("n3" :> <<"n2">>)

TopologyPending(n) ==
    \E h \in Slots : Variant(Handler(n, h).req.body) = "topology" /\ Handler(n, h).pc = "start"

TopologyInstalled(n) == neighbours[n] # <<>>

\* The client's topology request reaches node n.
ClientTopology(n) ==
    /\ ~TopologyPending(n)
    /\ ~TopologyInstalled(n)
    /\ \E h \in ClusterSlots : Invoke(n, h, [src |-> "c1", body |-> TopologyBody(Overlay)])
    /\ UNCHANGED <<seen, neighbours, unacked, lock, tasks, net, wins, received>>

\* m has been handed to some node.
Originated(m) ==
    \/ \E n \in Nodes : m \in seen[n]
    \/ \E n \in Nodes, h \in Slots : BroadcastIn(n, h, m)

\* The client broadcasts a message no node has been given yet to node n.
ClientBroadcast(n, m) ==
    /\ ~Originated(m)
    /\ \E h \in ClusterSlots : Invoke(n, h, [src |-> "c1", body |-> BroadcastBody(m)])
    /\ UNCHANGED <<seen, neighbours, unacked, lock, tasks, net, wins, received>>

\* An RPC issued by execute_rpc reaches its destination.
NetDeliver(r) ==
    /\ r \in net
    /\ r.dest \in Nodes
    /\ \E h \in ClusterSlots : Invoke(r.dest, h, [src |-> r.src, body |-> r.body])
    /\ net' = net \ {r}
    /\ UNCHANGED <<seen, neighbours, unacked, lock, tasks, wins, received>>

\* The RPCs the overlay can carry.
OverlayRpcs ==
    UNION { { Rpc(n, p, m) : p \in Range(Overlay[n]), m \in ClusterMsgs } : n \in Nodes }

CClientTopology == \E n \in Nodes : ClientTopology(n)
CClientBroadcast == \E n \in Nodes, m \in ClusterMsgs : ClientBroadcast(n, m)
CNetDeliver == \E r \in net : NetDeliver(r)
CTryAdd == \E n \in Nodes, h \in ClusterSlots : TryAdd(n, h)
CArm == \E n \in Nodes, h \in ClusterSlots : Arm(n, h)
CReplyOk == \E n \in Nodes, h \in ClusterSlots : ReplyOk(n, h)
CTopology == \E n \in Nodes, h \in ClusterSlots : TopologyInstall(n, h)
CTaskAttempt == \E n \in Nodes : \E t \in tasks[n] : RetryAttemptWhole(n, t)
CTaskClear == \E n \in Nodes : \E t \in tasks[n] : RetryClear(n, t)

ClusterNext ==
    \/ CClientTopology
    \/ CClientBroadcast
    \/ CNetDeliver
    \/ CTryAdd
    \/ CArm
    \/ CReplyOk
    \/ CTopology
    \/ CTaskAttempt
    \/ CTaskClear

\* One step of the retry task of message m on node n.
ClusterTaskStep(n, m) ==
    \E t \in tasks[n] : t.msg = m /\ (RetryAttemptWhole(n, t) \/ RetryClear(n, t))

\* Fair scheduling of handlers and retry tasks on every node (no step waits
\* for the mutex here: a critical section is one step), every node is sent its
\* topology, and every RPC in flight is delivered although other deliveries
\* keep its destination busy.
ClusterFairness ==
    /\ \A n \in Nodes :
          /\ WF_vars(ClientTopology(n))
          /\ \A h \in ClusterSlots : WF_vars(HandlerStep(n, h))
          /\ \A m \in ClusterMsgs : WF_vars(ClusterTaskStep(n, m))
    /\ \A r \in OverlayRpcs : SF_vars(NetDeliver(r))

ClusterSpec == Init /\ [][ClusterNext]_vars /\ ClusterFairness

\* ------------------------------------------------------------------ properties

TasksOf(n, m) == { t \in tasks[n] : t.msg = m }

\* C1: whatever the order or overlap of the broadcast{m} deliveries to the
\* node, try_add(m) returns true exactly once (for the first delivery to pass
\* it, and never again), the unacked entry is armed by that delivery alone, and
\* at most one retry task for m is ever spawned, so never two at a time.
C1_OneWinner ==
    \A m \in Msgs :
        /\ wins[Self][m] <= 1
        /\ (m \in seen[Self]) <=> (wins[Self][m] = 1)
        /\ \A h \in Slots :
              BroadcastIn(Self, h, m) /\ Handler(Self, h).pc \in {"arm", "reply_ok", "done"}
                  => wins[Self][m] = 1
        /\ Cardinality({ h \in Slots : BroadcastIn(Self, h, m) /\ Handler(Self, h).pc = "arm" })
              + Cardinality(TasksOf(Self, m)) = wins[Self][m]

\* Two overlapping deliveries of the same message: one has won the gate and
\* not armed yet, the other has already lost it.
C1_Witness ==
    \E m \in Msgs : \E h1, h2 \in Slots :
        /\ BroadcastIn(Self, h1, m) /\ Handler(Self, h1).pc = "arm"
        /\ BroadcastIn(Self, h2, m) /\ Handler(Self, h2).pc \in {"reply_ok", "done"}
        /\ Handler(Self, h1).req.src # Handler(Self, h2).req.src

\* C3: no set stored in unacked contains the node's own id, also after a
\* topology whose list for this node names the node itself.
C3_SelfExcluded ==
    \A p \in unacked[Self] : Self \notin p[2]

\* C4: the step that arms m for a broadcast from sender s leaves
\* unacked[m] = (elements of neighbours at that step) minus {s}.
C4_ArmedTargets ==
    [][\A h \in Slots :
          Handler(Self, h).pc = "arm" /\ handlers'[Self][h].pc = "reply_ok"
              => LET m == Handler(Self, h).req.body.message
                     s == Handler(Self, h).req.src
                 IN /\ m \in Keys(unacked'[Self])
                    /\ Get(unacked'[Self], m) = Range(neighbours[Self]) \ {s}
                    /\ s \notin Get(unacked'[Self], m)]_vars

\* A message from a neighbour has just been armed: the entry is the other neighbours.
C4_Witness ==
    \E h \in Slots :
        LET m == Handler(Self, h).req.body.message
            s == Handler(Self, h).req.src
        IN /\ Variant(Handler(Self, h).req.body) = "broadcast"
           /\ Handler(Self, h).pc = "reply_ok"
           /\ s \in Range(neighbours[Self])
           /\ m \in Keys(unacked[Self])
           /\ Get(unacked[Self], m) # {}
           /\ Get(unacked[Self], m) = Range(neighbours[Self]) \ {s}

\* C5: every key of unacked is a member of seen.
C5_UnackedSeen ==
    Keys(unacked[Self]) \subseteq seen[Self]

C5_Witness ==
    /\ Keys(unacked[Self]) # {}
    /\ \E t \in tasks[Self] : t.pc = "returned"

\* C6: a read is answered once, with read_ok, whose messages list without
\* repetition exactly the MessageIds try_add had accepted when the snapshot
\* was taken; reads taken with the same accepted set return the same set.
C6_ReadSnapshot ==
    /\ \A h \in Slots :
          Handler(Self, h).pc = "reply_read"
              => /\ Range(Handler(Self, h).data) = Handler(Self, h).gate
                 /\ Len(Handler(Self, h).data) = Cardinality(Handler(Self, h).gate)
    /\ \A h \in Slots :
          Variant(Handler(Self, h).req.body) = "read" /\ Handler(Self, h).pc = "done"
              => /\ Handler(Self, h).replies = 1
                 /\ Handler(Self, h).reply.type = "read_ok"
                 /\ Range(Handler(Self, h).reply.messages) = Handler(Self, h).gate
                 /\ Len(Handler(Self, h).reply.messages) = Cardinality(Handler(Self, h).gate)
    /\ \A h1, h2 \in Slots :
          /\ Handler(Self, h1).reply.type = "read_ok"
          /\ Handler(Self, h2).reply.type = "read_ok"
          /\ Handler(Self, h1).gate = Handler(Self, h2).gate
          => Range(Handler(Self, h1).reply.messages) = Range(Handler(Self, h2).reply.messages)

\* A read answered with one message after which another message was accepted.
C6_Witness ==
    \E h \in Slots :
        /\ Handler(Self, h).reply.type = "read_ok"
        /\ Len(Handler(Self, h).reply.messages) = 1
        /\ Cardinality(seen[Self]) = 2

\* C7 as stated: a task armed while neighbours was non-empty issues at least
\* one RPC in its first attempt.
C7_NonEmptyNeighboursSend ==
    \A t \in tasks[Self] :
        t.nbrs # <<>> /\ t.first # -1 => t.first >= 1

\* C7 amended: a task whose entry was armed non-empty (neighbours minus the
\* sender) issues min(3, size) >= 1 RPCs for its message in its first attempt,
\* before its first sleep, and does not leave the loop.
C7_NonEmptyTargetsSend ==
    \A t \in tasks[Self] :
        t.armed # {} =>
            /\ t.pc \in {"spawned", "unlock", "sleep"}
            /\ t.pc = "spawned" <=> t.first = -1
            /\ t.first # -1 =>
                  /\ t.first >= 1
                  /\ t.first = Min(RANDOM_PEER_COUNT, Cardinality(t.armed))
                  /\ \E r \in net :
                        r.src = Self /\ r.dest \in t.armed /\ r.body = BroadcastBody(t.msg)

\* The first attempt of a task has sent and the task has not slept yet.
C7_Witness ==
    \E t \in tasks[Self] :
        /\ t.armed # {}
        /\ t.pc = "unlock"
        /\ t.first >= 1
        /\ t.sender \in Range(t.nbrs)

\* C9: a topology request whose map has no entry for the node ends in
\* runtime.exit, without a reply.
C9_MissingEntryExits ==
    \A h \in Slots :
        /\ Variant(Handler(Self, h).req.body) = "topology"
        /\ Self \notin DOMAIN Handler(Self, h).req.body.topology
        /\ Handler(Self, h).pc # "start"
        => Handler(Self, h).pc = "exited" /\ Handler(Self, h).replies = 0

\* C8: every broadcast request, new or duplicate, is answered: its handler
\* reaches the end having sent exactly one broadcast_ok, under a scheduler
\* that never runs a retry attempt at all.
C8_BroadcastAnswered ==
    /\ [](\A h \in Slots :
            Variant(Handler(Self, h).req.body) = "broadcast"
                => /\ Handler(Self, h).replies <= 1
                   /\ Handler(Self, h).replies = 1
                        <=> (Handler(Self, h).pc = "done"
                               /\ Handler(Self, h).reply.type = "broadcast_ok"))
    /\ \A h \in Slots :
          (Variant(Handler(Self, h).req.body) = "broadcast" /\ Handler(Self, h).pc = "start")
              ~> (/\ Variant(Handler(Self, h).req.body) = "broadcast"
                  /\ Handler(Self, h).pc = "done"
                  /\ Handler(Self, h).replies = 1
                  /\ Handler(Self, h).reply.type = "broadcast_ok")

\* The reply to a new message is out while its retry task, which will never
\* terminate, has not made its first send.
C8_Witness ==
    \E h \in Slots : \E t \in tasks[Self] :
        /\ Variant(Handler(Self, h).req.body) = "broadcast"
        /\ Handler(Self, h).pc = "done"
        /\ Handler(Self, h).reply.type = "broadcast_ok"
        /\ t.msg = Handler(Self, h).req.body.message
        /\ t.sender = Handler(Self, h).req.src
        /\ t.armed # {}
        /\ t.pc = "spawned"
        /\ \A r \in net : r.body # BroadcastBody(t.msg)

\* C10: a task armed while neighbours was empty has the entry m -> {} until
\* it runs, never sends, and (when scheduled) ends with m removed from unacked
\* and still in seen; once it has returned m is not a key of unacked again.
C10_EmptyDrains ==
    /\ [](\A t \in tasks[Self] :
            t.nbrs = <<>> =>
                /\ t.armed = {}
                /\ t.pc \in {"spawned", "drain", "returned"}
                /\ t.first \in {-1, 0}
                /\ t.rpcs = 0
                /\ t.pc \in {"spawned", "drain"} => <<t.msg, {}>> \in unacked[Self]
                /\ t.pc = "returned" => t.msg \notin Keys(unacked[Self])
                /\ t.msg \in seen[Self]
                /\ \A r \in net : ~(r.src = Self /\ r.body = BroadcastBody(t.msg)))
    /\ \A m \in Msgs :
          (\E t \in tasks[Self] : t.msg = m /\ t.nbrs = <<>> /\ t.pc = "spawned")
              ~> (\E t \in tasks[Self] :
                    /\ t.msg = m /\ t.nbrs = <<>> /\ t.pc = "returned" /\ t.first = 0
                    /\ m \notin Keys(unacked[Self])
                    /\ m \in seen[Self])

\* The task has drained; later a topology arrived and m was delivered again.
C10_Witness ==
    \E t \in tasks[Self] : \E h \in Slots :
        /\ t.nbrs = <<>>
        /\ t.pc = "returned"
        /\ t.first = 0
        /\ t.msg \in seen[Self]
        /\ t.msg \notin Keys(unacked[Self])
        /\ neighbours[Self] # <<>>
        /\ BroadcastIn(Self, h, t.msg)
        /\ Handler(Self, h).pc = "done"

AllSeen(m) == \A n \in Nodes : m \in seen[n]

\* C2 as stated: a message handed to one node is eventually in seen on every node.
C2_EveryNodeSees ==
    \A m \in ClusterMsgs : Originated(m) ~> AllSeen(m)

\* Some node armed a message while it had no neighbours installed.
ArmedBeforeTopology ==
    \E n \in Nodes : \E t \in tasks[n] : t.nbrs = <<>>

\* C2 amended: in every behaviour in which each node has installed its topology
\* before it accepts a broadcast, a message handed to one node is eventually
\* in seen on every node.
C2_EveryNodeSeesAfterTopology ==
    \A m \in ClusterMsgs : Originated(m) ~> (AllSeen(m) \/ ArmedBeforeTopology)

\* The message has crossed the overlay with every topology installed first.
C2_Witness ==
    /\ \E m \in ClusterMsgs : AllSeen(m)
    /\ ~ArmedBeforeTopology
    /\ \E t \in tasks["n1"] : t.sender = "c1" /\ t.armed = {"n2"}


\* The invocation in slot h takes a step.
Steps(h) == handlers'[Self][h] # handlers[Self][h] /\ ~Returned(Self, h)

\* C11: handling a broadcast of a message already in seen goes from the gate
\* straight to the reply, and neither that step nor the reply changes seen,
\* neighbours, unacked, the tasks or the RPCs sent: it ends with one broadcast_ok.
C11_DuplicateOnlyReplies ==
    [][\A h \in Slots :
          /\ Variant(Handler(Self, h).req.body) = "broadcast"
          /\ Steps(h)
          /\ \/ Handler(Self, h).pc = "start"
                   /\ Handler(Self, h).req.body.message \in seen[Self]
             \/ Handler(Self, h).pc = "reply_ok"
          => /\ UNCHANGED <<seen, neighbours, unacked, tasks, net, lock>>
             /\ Handler(Self, h).pc = "start"
                   => /\ handlers'[Self][h].pc = "reply_ok"
                      /\ handlers'[Self][h].replies = 0
             /\ Handler(Self, h).pc = "reply_ok"
                   => /\ handlers'[Self][h].pc = "done"
                      /\ handlers'[Self][h].replies = 1
                      /\ handlers'[Self][h].reply.type = "broadcast_ok"]_vars

\* A second delivery of an armed message, from another sender, has been
\* answered; the entry is still the one armed for the first.
C11_Witness ==
    \E h \in Slots : \E t \in tasks[Self] :
        /\ BroadcastIn(Self, h, t.msg)
        /\ Handler(Self, h).pc = "done"
        /\ Handler(Self, h).req.src # t.sender
        /\ Handler(Self, h).req.src \in t.armed
        /\ TasksOf(Self, t.msg) = {t}
        /\ <<t.msg, t.armed>> \in unacked[Self]

\* C12: the step that handles a topology request with an entry for the node
\* sets neighbours to that entry's list and changes neither seen (so a read
\* after it yields what a read before it did) nor unacked, the tasks or the
\* RPCs sent.
C12_TopologyReplaces ==
    [][\A h \in Slots :
          /\ Variant(Handler(Self, h).req.body) = "topology"
          /\ Handler(Self, h).pc = "start"
          /\ Steps(h)
          /\ Self \in DOMAIN Handler(Self, h).req.body.topology
          => /\ neighbours'[Self] = Handler(Self, h).req.body.topology[Self]
             /\ seen' = seen
             /\ Snapshots(seen'[Self]) = Snapshots(seen[Self])
             /\ handlers'[Self][h].pc = "reply_ok"]_vars

\* A message accepted before the topology is read back after it.
C12_Witness ==
    \E h \in Slots : \E t \in tasks[Self] :
        /\ Variant(Handler(Self, h).req.body) = "read"
        /\ Handler(Self, h).pc = "done"
        /\ Handler(Self, h).reply.messages = <<t.msg>>
        /\ t.nbrs = <<>>
        /\ neighbours[Self] # <<>>

\* C13: a request whose body does not decode to read, broadcast or topology
\* (init, read_ok, an unknown tag, a broadcast without its message) ends in
\* runtime.exit: no reply, and the step changes nothing but the invocation.
C13_OthersExit ==
    /\ [](\A h \in Slots :
            Handler(Self, h).req.body \in OtherBodies
                => /\ Handler(Self, h).pc \in {"start", "exited"}
                   /\ Handler(Self, h).replies = 0
                   /\ Handler(Self, h).reply = NoBody)
    /\ [][\A h \in Slots :
            Handler(Self, h).req.body \in OtherBodies /\ Steps(h)
                => /\ handlers'[Self][h].pc = "exited"
                   /\ UNCHANGED <<seen, neighbours, unacked, tasks, net, lock>>]_vars

\* An unparseable broadcast and an init have both been turned away.
C13_Witness ==
    \E h1, h2 \in Slots :
        /\ Handler(Self, h1).req.body = [type |-> "broadcast"]
        /\ Handler(Self, h1).pc = "exited"
        /\ Handler(Self, h2).req.body = [type |-> "init"]
        /\ Handler(Self, h2).pc = "exited"
        /\ seen[Self] # {}


\* C14: a retry task has dropped the state lock before it issues an RPC: no
\* state has a task that holds the lock with RPCs of its attempt already out.
C14_NoRpcUnderLock ==
    \A t \in tasks[Self] :
        ~(/\ lock[Self] = t.id
          /\ t.rpcs > 0
          /\ \A p \in t.sent : Rpc(Self, p, t.msg) \in net)

\* An invocation has inserted its message into seen and not yet armed it.
Accepting(h) == Handler(Self, h).pc = "arm"

\* C15: accepting a broadcast is one critical section: between the insertion
\* into seen and the insertion into unacked no other invocation or retry step
\* runs, so nothing but the accepting invocation changes the node.
C15_AcceptAtomic ==
    [][\A h \in Slots :
          Accepting(h) /\ handlers'[Self][h] = handlers[Self][h]
              => /\ UNCHANGED <<seen, neighbours, unacked, tasks, net, lock>>
                 /\ \A g \in Slots : Returned(Self, g) \/ handlers'[Self][g] = handlers[Self][g]]_vars


\* The broadcast{m} RPCs this node has issued.
Forwarded(m) == { r \in net : r.src = Self /\ r.body = BroadcastBody(m) }

Attempted(t) == t.pc \in {"unlock", "sleep"}

\* C17: an attempt for m issues min(RANDOM_PEER_COUNT, |unacked[m]|) RPCs, at
\* most RANDOM_PEER_COUNT, each a broadcast{m}, to pairwise distinct peers
\* that are members of unacked[m]; nothing else is ever sent by the node.
C17_AttemptFanout ==
    /\ \A t \in tasks[Self] :
          Attempted(t) =>
              /\ t.rpcs = Min(RANDOM_PEER_COUNT, Cardinality(Get(unacked[Self], t.msg)))
              /\ t.rpcs <= RANDOM_PEER_COUNT
              /\ Cardinality(t.sent) = t.rpcs
              /\ t.sent \subseteq Get(unacked[Self], t.msg)
              /\ \A p \in t.sent : Rpc(Self, p, t.msg) \in net
    /\ \A r \in net :
          r.src = Self =>
              \E t \in tasks[Self] :
                  r.body = BroadcastBody(t.msg) /\ r.dest \in Get(unacked[Self], t.msg)

\* With four peers pending an attempt sent to three of them, the one listed
\* last among them and the one listed first not.
C17_Witness ==
    \E t \in tasks[Self] :
        /\ Attempted(t)
        /\ Cardinality(Get(unacked[Self], t.msg)) = RANDOM_PEER_COUNT + 1
        /\ t.rpcs = RANDOM_PEER_COUNT
        /\ "n5" \in t.sent
        /\ "n2" \notin t.sent


\* C18: a message armed while neighbours was empty is never forwarded: no
\* broadcast{m} RPC of this node exists, no step issues one or spawns another
\* task for m, whatever topology is installed later and however often m is
\* delivered again.
C18_NeverForwarded ==
    /\ [](\A t \in tasks[Self] :
            t.nbrs = <<>> => Forwarded(t.msg) = {} /\ TasksOf(Self, t.msg) = {t})
    /\ [][\A t \in tasks[Self] :
            t.nbrs = <<>> =>
                /\ { r \in net' : r.src = Self /\ r.body = BroadcastBody(t.msg) } = {}
                /\ { u \in tasks'[Self] : u.msg = t.msg /\ u.pc # "returned" }
                        \subseteq { [t EXCEPT !.pc = "drain", !.first = 0] }
                            \cup {t}]_vars

\* The task drained, a topology then installed neighbours, and the message
\* came again from a neighbour and was answered: nothing was sent.
C18_Witness ==
    \E t \in tasks[Self] : \E h \in Slots :
        /\ t.nbrs = <<>>
        /\ t.pc = "returned"
        /\ "n2" \in Range(neighbours[Self])
        /\ Handler(Self, h).req = [src |-> "n2", body |-> BroadcastBody(t.msg)]
        /\ Handler(Self, h).pc = "done"
        /\ Forwarded(t.msg) = {}


\* C19: the topology step leaves unacked, the tasks and the RPCs sent as they
\* are; an entry present is the set armed at acceptance, and every RPC for m,
\* in whichever attempt, goes to a peer of that set, whatever neighbours is now.
C19_TargetsFixed ==
    /\ [](\A t \in tasks[Self] :
            /\ t.armed = Targets(t.nbrs, t.sender)
            /\ t.msg \in Keys(unacked[Self]) => Get(unacked[Self], t.msg) = t.armed
            /\ t.sent \subseteq t.armed
            /\ \A r \in Forwarded(t.msg) : r.dest \in t.armed)
    /\ [][\A h \in Slots :
            /\ Variant(Handler(Self, h).req.body) = "topology"
            /\ Handler(Self, h).pc = "start"
            /\ Steps(h)
            => UNCHANGED <<unacked, tasks, net>>]_vars

\* An attempt made after the topology changed: it sent to n1, no longer a
\* neighbour, and to none of the peers that became neighbours.
C19_Witness ==
    \E t \in tasks[Self] : \E h \in Slots :
        /\ t.pc = "unlock"
        /\ lock[Self] = t.id
        /\ t.nbrs = <<"n1", "n2">>
        /\ t.sent = {"n1", "n2"}
        /\ Variant(Handler(Self, h).req.body) = "topology"
        /\ Handler(Self, h).pc \in {"reply_ok", "done"}
        /\ neighbours[Self] = <<"n2", "n3", "n4", "n5">>
        /\ Forwarded(t.msg) = { Rpc(Self, p, t.msg) : p \in {"n1", "n2"} }


\* The tasks spawned for m that have not returned.
Live(m) == { t \in TasksOf(Self, m) : t.pc # "returned" }

\* C20: every key of unacked has exactly one task spawned and not returned
\* (and one entry); a task that has not yet run finds its entry present; and
\* the message of a returned task is not a key, so it never is one again.
C20_OneLiveTaskPerKey ==
    /\ \A m \in Keys(unacked[Self]) :
          /\ Cardinality(Live(m)) = 1
          /\ Cardinality({ e \in unacked[Self] : e[1] = m }) = 1
    /\ \A t \in tasks[Self] :
          /\ t.pc = "spawned" => <<t.msg, t.armed>> \in unacked[Self]
          /\ t.pc # "returned" => t.msg \in Keys(unacked[Self])
          /\ t.pc = "returned" => t.msg \notin Keys(unacked[Self]) /\ Live(t.msg) = {}

\* One message's task has returned and its key is gone while another
\* message's task is between attempts with its key present.
C20_Witness ==
    \E t, u \in tasks[Self] :
        /\ t.pc = "returned"
        /\ t.msg \notin Keys(unacked[Self])
        /\ u.pc = "sleep"
        /\ u.msg # t.msg
        /\ Keys(unacked[Self]) = {u.msg}
        /\ Live(u.msg) = {u}

====
